---------------------------- MODULE Spec2Model ----------------------------
(***************************************************************************)
(* GoPing (src/main.go): CIDR expansion, /24 subdivision, the bounded      *)
(* concurrency dispatch of probes with its progress monitor, and the       *)
(* last-octet sort of the reporter.                                        *)
(*                                                                         *)
(* Values.  An address (net.IP) is a tuple of 4 or of 16 bytes.  A         *)
(* CIDR string is the record [fam, addr, ones] that net.ParseCIDR reads    *)
(* from it (fam "v4", "v6" or "bad" for a string that does not parse, and  *)
(* "v4in6" for an IPv4-mapped one, ::ffff:a.b.c.d/ones, whose addr is the  *)
(* four low bytes and whose ones count from the top of the 128 bits).  A   *)
(* dotted-decimal string is the sequence of its dot-separated parts, each  *)
(* part the sequence of its decimal digits, so that formatting a byte and  *)
(* reading it back with Atoi are real conversions.                         *)
(***************************************************************************)
EXTENDS Integers, Sequences, FiniteSets, TLC

VARIABLES
    \* ---- Range Expander, called as a function (ExpandSpec)
    cidrIn,        \* the CIDR string handed to parseCIDR / splitIntoSubnets
    expPc,         \* "start" | "parsed" | "split"
    parseOut,      \* what parseCIDR returned: [err, ips]
    procOut,       \* what processCIDR did with it: "error" | "warning" | "scan"
    splitOut,      \* what splitIntoSubnets returned
    \* ---- the loop of splitIntoSubnets (SplitLoopSpec) or of parseCIDR
    \*      (ParseLoopSpec), one iteration per step
    loopNet,       \* ipNet of the block
    loopStart,     \* start: the block's network address
    current,       \* the loop's address at the head of the iteration
    loopPc,        \* "idle" | "loop" | "returned" (split) | "parse" | "parsed" (parse)
    loopWrapped,   \* the address has wrapped around since the loop was entered
    loopSteps,     \* iterations followed since the loop was taken up
    lastSubnet,    \* the string appended by the latest iteration
    \* ---- one chunk's scan: processCIDR from line 216 on (Spec, LiveSpec)
    ips,           \* the address strings handed to pingAllWithConcurrency
    maxThreads,    \* the concurrency ceiling
    mainPc,        \* processCIDR / pingAllWithConcurrency: "idle" | "spawn" | "collect" |
                   \*   "returned" | "closedDone" | "printed" | "logged" | "panic" |
                   \*   "exit" (main has returned: the process is over)
    spawnIdx,      \* number of per-address goroutines started so far
    taskPc,        \* per goroutine: "none" | "acquire" | "ping" | "send" | "release" |
                   \*   "progress" | "exit" | "done"
    taskResult,    \* per goroutine: what pingIP returned
    taskReleased,  \* per goroutine: it has given its slot back (history)
    taskSignalled, \* per goroutine: it has sent its progress signal (history)
    semaphore,     \* number of slots taken (length of the semaphore channel's buffer)
    results,       \* buffer of the results channel
    resultsClosed, \* close(results) has run
    progress,      \* number of signals in the progress channel's buffer
    wg,            \* the WaitGroup counter
    closerPc,      \* the goroutine of lines 343-346: "none" | "wait" | "close" | "done"
    pingResults,   \* the slice pingAllWithConcurrency collects, then the reporter sorts
    doneClosed,    \* close(done) has run
    monPc,         \* showProgress: "idle" | "run" | "exited"
    monCount,      \* showProgress's count
    reportIn,      \* the outcomes as handed to the reporter
    console,       \* the cells printResults printed: [octet, alive]
    logRows,       \* the rows saveSortedResultsToLog wrote: [ip, status]
    summary,       \* the summary line printResults printed: [alive, dead, total]
    \* ---- main's loop over the CIDR list, lines 112-128 (RunSpec)
    cidrArgs,      \* the parts of the -c string, as strings.FieldsFunc cuts them
    cidrList,      \* what splitCIDRs returned
    runPc,         \* "idle" | "start" | "cidr" | "subnet" | "scan" | "end" | "noValid"
    cidrIdx,       \* position of the outer loop in cidrList
    subnets,       \* what splitIntoSubnets returned for cidrList[cidrIdx]
    subIdx,        \* position of the inner loop in subnets
    handled,       \* per processCIDR call that returned (history):
                   \*   [cidr, did ("error" | "warning" | "scan"), rows]
    strays         \* the showProgress goroutines of processCIDR calls that have
                   \*   returned, still running: [progress, count] each

expandVars == <<cidrIn, expPc, parseOut, procOut, splitOut>>
loopVars == <<loopNet, loopStart, current, loopPc, loopWrapped, loopSteps, lastSubnet>>

taskVars == <<taskPc, taskResult, taskReleased, taskSignalled>>
chanVars == <<semaphore, results, resultsClosed, progress, wg, doneClosed>>
monVars == <<monPc, monCount>>
reportVars == <<reportIn, console, logRows, summary>>
scanVars == <<ips, maxThreads, mainPc, spawnIdx, taskVars, chanVars, closerPc,
              pingResults, monVars, reportVars>>

runVars == <<cidrArgs, cidrList, runPc, cidrIdx, subnets, subIdx, handled, strays>>

vars == <<expandVars, loopVars, scanVars, runVars>>

---------------------------------------------------------------------------
(* Bytes and masks (package net, as used by main.go)                       *)

IPv4len == 4
IPv6len == 16

RECURSIVE Pow2(_)
Pow2(n) == IF n = 0 THEN 1 ELSE 2 * Pow2(n - 1)

\* x & y on bytes
RECURSIVE BitAnd(_, _)
BitAnd(x, y) ==
    IF x = 0 \/ y = 0 THEN 0
    ELSE (x % 2) * (y % 2) + 2 * BitAnd(x \div 2, y \div 2)

\* the twelve bytes before the four of an IPv4-mapped address, ::ffff:
V4InV6Prefix == <<0, 0, 0, 0, 0, 0, 0, 0, 0, 0, 255, 255>>

\* an address that is not an IPv4 one: 2001:db8::1
V6Addr == <<32, 1, 13, 184, 0, 0, 0, 0, 0, 0, 0, 0, 0, 0, 0, 1>>

\* the byte slice with the bytes f[1] .. f[n], built byte by byte
RECURSIVE Bytes(_, _)
Bytes(f, n) == IF n = 0 THEN <<>> ELSE Append(Bytes(f, n - 1), f[n])

allFF(b) == \A i \in 1..Len(b) : b[i] = 255

\* ip.To4(): the four bytes of an IPv4 address in either form, nil (<<>>)
\* for any other
To4(ip) ==
    IF Len(ip) = IPv4len THEN ip
    ELSE IF Len(ip) = IPv6len /\ SubSeq(ip, 1, 12) = V4InV6Prefix THEN SubSeq(ip, 13, 16)
    ELSE <<>>

\* net.CIDRMask(ones, bits): ones leading one bits in bits / 8 bytes
CIDRMask(ones, bits) ==
    Bytes([i \in 1..(bits \div 8) |->
              IF ones >= 8 * i THEN 255
              ELSE IF ones <= 8 * (i - 1) THEN 0
              ELSE 256 - Pow2(8 * i - ones)], bits \div 8)

\* ip.Mask(mask): a 16-byte mask on a 4-byte address is cut to its last
\* four bytes, a 16-byte IPv4-mapped address under a 4-byte mask to its
\* last four; a 16-byte address under a 16-byte mask keeps its 16 bytes
Mask(ip, mask) ==
    LET m == IF Len(mask) = IPv6len /\ Len(ip) = IPv4len /\ allFF(SubSeq(mask, 1, 12))
             THEN SubSeq(mask, 13, 16) ELSE mask
        a == IF Len(mask) = IPv4len /\ Len(ip) = IPv6len /\ SubSeq(ip, 1, 12) = V4InV6Prefix
             THEN SubSeq(ip, 13, 16) ELSE ip
    IN  IF Len(a) # Len(m) THEN <<>>
        ELSE Bytes([i \in 1..Len(a) |-> BitAnd(a[i], m[i])], Len(a))

\* bits of the mask above the four low bytes
V4InV6Bits == 96

\* the one bits of the mask that fall on the four low bytes: all of them for
\* a 4-byte mask; for the 16-byte mask of an IPv4-mapped CIDR those past the
\* 12 prefix bytes
LowOnes(cidr) == IF cidr.fam = "v4in6" THEN cidr.ones - V4InV6Bits ELSE cidr.ones

\* net.ParseCIDR on a string that parses: the address in 16 bytes; the mask
\* of 4 bytes for dotted-decimal notation, of 16 for IPv6 notation; the
\* network ip.Mask(mask)
ParseCIDR(cidr) ==
    LET m    == CIDRMask(cidr.ones, IF cidr.fam = "v4" THEN 8 * IPv4len ELSE 8 * IPv6len)
        ip16 == IF Len(cidr.addr) = IPv4len THEN V4InV6Prefix \o cidr.addr ELSE cidr.addr
    IN  [ip |-> ip16, ipNet |-> [IP |-> Mask(ip16, m), Mask |-> m]]

\* ipNet.Contains(ip): network and address are taken through To4 where that
\* gives an address, a 16-byte mask on a 4-byte network is cut to its last
\* four bytes; addresses of another length than the network are not in it
Contains(ipNet, ip) ==
    LET nn == IF To4(ipNet.IP) # <<>> THEN To4(ipNet.IP) ELSE ipNet.IP
        m  == IF Len(ipNet.Mask) = IPv6len /\ Len(nn) = IPv4len
              THEN SubSeq(ipNet.Mask, 13, 16) ELSE ipNet.Mask
        x  == IF To4(ip) # <<>> THEN To4(ip) ELSE ip
    IN  /\ Len(m) = Len(nn)
        /\ Len(x) = Len(nn)
        /\ \A i \in 1..Len(nn) : BitAnd(nn[i], m[i]) = BitAnd(x[i], m[i])

\* strconv.Itoa for a byte: its decimal digits, no leading zero
Itoa(n) ==
    IF n < 10 THEN <<n>>
    ELSE IF n < 100 THEN <<n \div 10, n % 10>>
    ELSE <<n \div 100, (n \div 10) % 10, n % 10>>

\* ip.String() of an IPv4 address in either form: the four parts of the
\* dotted-decimal string of To4
IPString(ip) == [i \in 1..IPv4len |-> Itoa(To4(ip)[i])]

---------------------------------------------------------------------------
(* inc and parseCIDR, main.go 284-315                                      *)

\* inc, from byte j down: ip[j]++ wraps at 256 and carries into ip[j-1];
\* the slice has the length the loop variable has, 4 or 16 bytes
RECURSIVE incFrom(_, _)
incFrom(ip, j) ==
    IF j = 0 THEN ip
    ELSE LET v   == (ip[j] + 1) % 256
             ip2 == SubSeq(ip, 1, j - 1) \o <<v>> \o SubSeq(ip, j + 1, Len(ip))
         IN  IF v > 0 THEN ip2 ELSE incFrom(ip2, j - 1)

inc(ip) == incFrom(ip, Len(ip))

\* Evaluation detail: the loop is unrolled in runs of LoopRun iterations so
\* that the evaluator's stack stays shallow; the iterations are the code's.
LoopRun == 16

\* at most n iterations of: for ...; ipNet.Contains(ip); inc(ip) { append }
RECURSIVE parseLoopN(_, _, _, _)
parseLoopN(ipNet, ip, all, n) ==
    IF ~Contains(ipNet, ip) THEN [exit |-> TRUE, ip |-> ip, ips |-> all]
    ELSE IF n = 0 THEN [exit |-> FALSE, ip |-> ip, ips |-> all]
    ELSE parseLoopN(ipNet, inc(ip), Append(all, IPString(ip)), n - 1)

RECURSIVE parseLoop(_, _, _)
parseLoop(ipNet, ip, all) ==
    LET r == parseLoopN(ipNet, ip, all, LoopRun)
    IN  IF r.exit THEN r.ips ELSE parseLoop(ipNet, r.ip, r.ips)

ErrNil      == "nil"
ErrFormat   == "invalid CIDR format"
ErrIPv6     == "IPv6 not supported, please use IPv4 CIDR"
ErrTooSmall == "network too small for scanning"

\* parseCIDR with the broadcast address left in: ips[1:] for ips[1:len(ips)-1]
parseCIDR_KeepBroadcast(cidr) ==
    IF cidr.fam = "bad" THEN [err |-> ErrFormat, ips |-> <<>>]
    ELSE IF To4(ParseCIDR(cidr).ip) = <<>> THEN [err |-> ErrIPv6, ips |-> <<>>]
    ELSE LET p   == ParseCIDR(cidr)
             all == parseLoop(p.ipNet, Mask(p.ip, p.ipNet.Mask), <<>>)
         IN  IF Len(all) < 2 THEN [err |-> ErrTooSmall, ips |-> <<>>]
             ELSE [err |-> ErrNil, ips |-> SubSeq(all, 2, Len(all))]

parseCIDR(cidr) ==
    IF cidr.fam = "bad" THEN [err |-> ErrFormat, ips |-> <<>>]
    ELSE IF To4(ParseCIDR(cidr).ip) = <<>> THEN [err |-> ErrIPv6, ips |-> <<>>]
    ELSE LET p   == ParseCIDR(cidr)
             all == parseLoop(p.ipNet, Mask(p.ip, p.ipNet.Mask), <<>>)
         IN  IF Len(all) < 2 THEN [err |-> ErrTooSmall, ips |-> <<>>]
             ELSE [err |-> ErrNil, ips |-> SubSeq(all, 2, Len(all) - 1)]

---------------------------------------------------------------------------
(* splitIntoSubnets, main.go 147-196                                       *)

\* splitNext with the step of a /23: 1 << (32 - 23) for 1 << (32 - 24)
splitNext_Step512(cur) ==
    LET lo16  == cur[3] * 256 + cur[4]
        hi16  == cur[1] * 256 + cur[2]
        sumLo == lo16 + 512
        lo    == sumLo % 65536
        hi    == (hi16 + sumLo \div 65536) % 65536
    IN  <<hi \div 256, hi % 256, lo \div 256, lo % 256>>

\* lines 180-188: ipInt := uint32(current); ipInt += 256; current = bytes.
\* The 32-bit sum is formed in two 16-bit halves (the evaluator's integers
\* are 32-bit signed); the carry out of bit 31 is dropped, as uint32 does.
splitNext(cur) ==
    LET lo16  == cur[3] * 256 + cur[4]
        hi16  == cur[1] * 256 + cur[2]
        sumLo == lo16 + 256
        lo    == sumLo % 65536
        hi    == (hi16 + sumLo \div 65536) % 65536
    IN  <<hi \div 256, hi % 256, lo \div 256, lo % 256>>

\* subnet.String() of IPNet{IP: current, Mask: CIDRMask(24, 32)}
SubnetString(cur) == [fam |-> "v4", addr |-> cur, ones |-> 24]

\* at most n iterations of the loop of lines 171-194
RECURSIVE splitLoopN(_, _, _, _)
splitLoopN(ipNet, cur, out, n) ==
    IF n = 0 THEN [exit |-> FALSE, cur |-> cur, subnets |-> out]
    ELSE LET subnets2 == Append(out, SubnetString(cur))
             next     == splitNext(cur)
         IN  IF ~Contains(ipNet, next)
             THEN [exit |-> TRUE, cur |-> next, subnets |-> subnets2]
             ELSE splitLoopN(ipNet, next, subnets2, n - 1)

RECURSIVE splitLoop(_, _, _)
splitLoop(ipNet, cur, out) ==
    LET r == splitLoopN(ipNet, cur, out, LoopRun)
    IN  IF r.exit THEN r.subnets ELSE splitLoop(ipNet, r.cur, r.subnets)

\* splitIntoSubnets with the threshold one bit short: ones >= 23 for ones >= 24
splitIntoSubnets_From23(cidr) ==
    IF cidr.fam = "bad" THEN <<>>
    ELSE IF cidr.ones >= 23 \/ cidr.fam # "v4" THEN <<cidr>>
    ELSE LET p == ParseCIDR(cidr)
         IN  splitLoop(p.ipNet, To4(Mask(p.ip, p.ipNet.Mask)), <<>>)

splitIntoSubnets(cidr) ==
    IF cidr.fam = "bad" THEN <<>>
    ELSE IF cidr.ones >= 24 \/ cidr.fam # "v4" THEN <<cidr>>
    ELSE LET p == ParseCIDR(cidr)
         IN  splitLoop(p.ipNet, To4(Mask(p.ip, p.ipNet.Mask)), <<>>)

---------------------------------------------------------------------------
(* processCIDR up to the scan, main.go 199-210                             *)

processCIDRStart(cidr) ==
    LET r == parseCIDR(cidr)
    IN  IF r.err # ErrNil THEN "error"
        ELSE IF Len(r.ips) = 0 THEN "warning"
        ELSE "scan"

---------------------------------------------------------------------------
(* ExpandSpec: the Range Expander applied to bounded inputs                *)

\* parseCIDR inputs have at most MaxHostBits host bits (prefix 32-MaxHostBits..32)
MaxHostBits == 9
\* splitIntoSubnets inputs span at most 2^MaxSplitBits chunks (prefix 24-MaxSplitBits..23)
MaxSplitBits == 9

\* Addresses as written in the inputs: low, middle and top of the address
\* space, with host bits clear and set.
InputAddrs ==
    { <<10, 0, 0, 0>>, <<10, 0, 1, 77>>, <<192, 168, 1, 0>>, <<192, 168, 1, 130>>,
      <<127, 255, 255, 255>>, <<255, 255, 255, 0>>, <<255, 255, 255, 255>> }

V4(addr, ones) == [fam |-> "v4", addr |-> addr, ones |-> ones]

ParseInputs == { V4(a, p) : a \in InputAddrs, p \in (32 - MaxHostBits)..32 }
SplitInputs == { V4(a, p) : a \in InputAddrs, p \in (24 - MaxSplitBits)..23 }
OtherInputs == { [fam |-> "v6", addr |-> V6Addr, ones |-> 64],
                 [fam |-> "bad", addr |-> <<>>, ones |-> 0] }

\* IPv4-mapped blocks, ::ffff:a.b.c.d/(96+p), of the same sizes
MappedInputs ==
    { [fam |-> "v4in6", addr |-> a, ones |-> V4InV6Bits + p] :
        a \in { <<10, 0, 1, 77>> }, p \in (32 - MaxHostBits)..32 }

NoParse == [err |-> "none", ips |-> <<>>]

ExpandIdle ==
    /\ cidrIn = [fam |-> "bad", addr |-> <<>>, ones |-> 0]
    /\ expPc = "idle"
    /\ parseOut = NoParse
    /\ procOut = "none"
    /\ splitOut = <<>>

LoopIdle ==
    /\ loopNet = [IP |-> <<0, 0, 0, 0>>, Mask |-> <<0, 0, 0, 0>>]
    /\ loopStart = <<0, 0, 0, 0>>
    /\ current = <<0, 0, 0, 0>>
    /\ loopPc = "idle"
    /\ loopWrapped = FALSE
    /\ loopSteps = 0
    /\ lastSubnet = <<>>

\* no summary line printed yet
NoSummary == [alive |-> 0, dead |-> 0, total |-> 0]

\* no processCIDR call is scanning: its locals do not exist
NoScan ==
    /\ ips = <<>>
    /\ mainPc = "idle"
    /\ spawnIdx = 0
    /\ taskPc = <<>>
    /\ taskResult = <<>>
    /\ taskReleased = <<>>
    /\ taskSignalled = <<>>
    /\ semaphore = 0
    /\ results = <<>>
    /\ resultsClosed = FALSE
    /\ progress = 0
    /\ wg = 0
    /\ closerPc = "none"
    /\ pingResults = <<>>
    /\ doneClosed = FALSE
    /\ monPc = "idle"
    /\ monCount = 0
    /\ reportIn = <<>>
    /\ console = <<>>
    /\ logRows = <<>>
    /\ summary = NoSummary

ScanIdle == maxThreads = 0 /\ NoScan

RunIdle ==
    /\ cidrArgs = <<>>
    /\ cidrList = <<>>
    /\ runPc = "idle"
    /\ cidrIdx = 0
    /\ subnets = <<>>
    /\ subIdx = 0
    /\ handled = <<>>
    /\ strays = <<>>

ExpandInit ==
    /\ cidrIn \in ParseInputs \cup SplitInputs \cup OtherInputs \cup MappedInputs
    /\ expPc = "start"
    /\ parseOut = NoParse
    /\ procOut = "none"
    /\ splitOut = <<>>
    /\ LoopIdle
    /\ ScanIdle
    /\ RunIdle

\* processCIDR(cidr): parseCIDR and the two early returns
CallParseCIDR ==
    /\ expPc = "start"
    /\ cidrIn \in ParseInputs \cup OtherInputs \cup MappedInputs
    /\ expPc' = "parsed"
    /\ parseOut' = parseCIDR(cidrIn)
    /\ procOut' = processCIDRStart(cidrIn)
    /\ UNCHANGED <<cidrIn, splitOut, loopVars, scanVars, runVars>>

\* main, line 119: subnets := splitIntoSubnets(cidr)
CallSplitIntoSubnets ==
    /\ expPc = "start"
    /\ expPc' = "split"
    /\ splitOut' = splitIntoSubnets(cidrIn)
    /\ UNCHANGED <<cidrIn, parseOut, procOut, loopVars, scanVars, runVars>>

ExpandNext == CallParseCIDR \/ CallSplitIntoSubnets

ExpandSpec == ExpandInit /\ [][ExpandNext]_vars

---------------------------------------------------------------------------
(* SplitLoopSpec: the loop of splitIntoSubnets (lines 171-194) one         *)
(* iteration per step.  The loop's control state is `current` alone.  The  *)
(* loop is entered at start; so that the end of a large block is within    *)
(* reach, the specification also takes up the loop at the head of one of   *)
(* the block's last LoopWindow iterations: the loop reaches the head of    *)
(* every /24 of the block on its way, since it leaves only at an address   *)
(* the block does not contain.                                             *)

LoopWindow == 3
\* iterations followed from where the loop is taken up
MaxLoopSteps == 4

\* prefix lengths of the blocks split step by step
LoopPrefixes == {0, 1, 8, 16, 22, 23}

LoopInputs == { V4(a, p) : a \in InputAddrs, p \in LoopPrefixes }

\* hi24 of an address: its first three bytes as a number
Hi24(ip) == ip[1] * 65536 + ip[2] * 256 + ip[3]
FromHi24(h) == <<h \div 65536, (h \div 256) % 256, h % 256, 0>>

\* the heads of the first iteration and of the last LoopWindow iterations
\* of the loop over the block of cidr
LoopEntries(cidr) ==
    LET start == Mask(cidr.addr, CIDRMask(cidr.ones, 8 * IPv4len))
        n     == Pow2(24 - cidr.ones)
    IN  {start} \cup { FromHi24(Hi24(start) + n - k) :
                            k \in 1..(IF n < LoopWindow THEN n ELSE LoopWindow) }

SplitLoopInit ==
    /\ \E cidr \in LoopInputs :
        /\ loopNet = ParseCIDR(cidr).ipNet
        /\ loopStart = To4(Mask(ParseCIDR(cidr).ip, ParseCIDR(cidr).ipNet.Mask))
        /\ current \in LoopEntries(cidr)
    /\ loopPc = "loop"
    /\ loopWrapped = FALSE
    /\ loopSteps = 0
    /\ lastSubnet = <<>>
    /\ ExpandIdle
    /\ ScanIdle
    /\ RunIdle

\* one iteration: append the subnet of current, add 256, test Contains
SplitIterate ==
    /\ loopPc = "loop"
    /\ loopSteps < MaxLoopSteps
    /\ loopSteps' = loopSteps + 1
    /\ lastSubnet' = SubnetString(current)
    /\ current' = splitNext(current)
    /\ loopWrapped' = (loopWrapped \/ Hi24(splitNext(current)) < Hi24(current))
    /\ loopPc' = IF Contains(loopNet, splitNext(current)) THEN "loop" ELSE "returned"
    /\ UNCHANGED <<loopNet, loopStart, expandVars, scanVars, runVars>>

SplitLoopNext == SplitIterate

SplitLoopSpec == SplitLoopInit /\ [][SplitLoopNext]_vars

---------------------------------------------------------------------------
(* ParseLoopSpec: the loop of parseCIDR (line 296) one iteration per step. *)
(* The loop's control state is ip alone (kept in `current`).  As in        *)
(* SplitLoopSpec the loop is taken up at its start or at the head of one   *)
(* of the block's last LoopWindow iterations, which it reaches on its way. *)

\* prefix lengths of the blocks expanded step by step
ParsePrefixes == {0, 1, 8, 24, 30, 31, 32}

\* the blocks expanded step by step: plain ones, and IPv4-mapped ones with
\* none and with all but two of the low 32 bits fixed
ParseLoopInputs ==
    { V4(a, p) : a \in InputAddrs, p \in ParsePrefixes }
    \cup { [fam |-> "v4in6", addr |-> a, ones |-> V4InV6Bits + p] :
              a \in { <<10, 0, 1, 77>>, <<255, 255, 255, 255>> }, p \in {0, 30} }

\* the last address of the block
Broadcast(ipNet) ==
    Bytes([i \in 1..Len(ipNet.IP) |-> ipNet.IP[i] + (255 - ipNet.Mask[i])], Len(ipNet.IP))

\* the four low bytes of the address are zero
LowZero(ip) == \A i \in (Len(ip) - 3)..Len(ip) : ip[i] = 0

\* values of ip at the head of an iteration: the network address and the
\* block's last addresses
ParseEntries(cidr) ==
    LET net   == ParseCIDR(cidr).ipNet
        last  == Broadcast(net)
        n     == Len(last)
        reach == IF last[n] - net.IP[n] + 1 < LoopWindow
                 THEN last[n] - net.IP[n] + 1 ELSE LoopWindow
    IN  { net.IP } \cup { SubSeq(last, 1, n - 1) \o <<last[n] - (k - 1)>> : k \in 1..reach }

ParseLoopInit ==
    /\ \E cidr \in ParseLoopInputs :
          /\ loopNet = ParseCIDR(cidr).ipNet
          /\ loopStart = Mask(ParseCIDR(cidr).ip, ParseCIDR(cidr).ipNet.Mask)
          /\ current \in ParseEntries(cidr)
    /\ loopPc = "parse"
    /\ loopWrapped = FALSE
    /\ loopSteps = 0
    /\ lastSubnet = <<>>
    /\ ExpandIdle
    /\ ScanIdle
    /\ RunIdle

\* line 296-298, one iteration: append ip.String(); inc(ip); test Contains
ParseIterate ==
    /\ loopPc = "parse"
    /\ loopSteps < MaxLoopSteps
    /\ loopSteps' = loopSteps + 1
    /\ lastSubnet' = IPString(current)
    /\ current' = inc(current)
    /\ loopWrapped' = (loopWrapped \/ LowZero(inc(current)))
    /\ loopPc' = IF Contains(loopNet, inc(current)) THEN "parse" ELSE "parsed"
    /\ UNCHANGED <<loopNet, loopStart, expandVars, scanVars, runVars>>

ParseLoopNext == ParseIterate

ParseLoopSpec == ParseLoopInit /\ [][ParseLoopNext]_vars

---------------------------------------------------------------------------
(* The reporter's sort, main.go 380-406 and 450-456                        *)

\* getLastOctet: the last part of strings.Split(ip, ".")
getLastOctet(ip) == ip[Len(ip)]

\* strconv.Atoi on a string of decimal digits
RECURSIVE AtoiFrom(_, _)
AtoiFrom(digits, acc) ==
    IF digits = <<>> THEN acc ELSE AtoiFrom(Tail(digits), 10 * acc + Head(digits))

Atoi(digits) == AtoiFrom(digits, 0)

\* string comparison s < t on digit strings (byte-wise, a prefix is smaller)
RECURSIVE StringLess(_, _)
StringLess(s, t) ==
    IF t = <<>> THEN FALSE
    ELSE IF s = <<>> THEN TRUE
    ELSE IF Head(s) # Head(t) THEN Head(s) < Head(t)
    ELSE StringLess(Tail(s), Tail(t))

\* the comparison with the Atoi calls left out: the octets compared as strings
less_Lexical(a, b) == StringLess(getLastOctet(a.IP), getLastOctet(b.IP))

\* the less function of lines 402-406 and 452-456
less(a, b) == Atoi(getLastOctet(a.IP)) < Atoi(getLastOctet(b.IP))

\* the inner loop of insertion sort: for j := i; j > a && less(j, j-1); j-- { swap }
RECURSIVE insertDown(_, _)
insertDown(data, j) ==
    IF j > 1 /\ less(data[j], data[j - 1])
    THEN insertDown([data EXCEPT ![j] = data[j - 1], ![j - 1] = data[j]], j - 1)
    ELSE data

\* at most n iterations of the outer loop: for i := a + 1; i < b; i++
RECURSIVE insertionSortN(_, _, _)
insertionSortN(data, i, n) ==
    IF i > Len(data) \/ n = 0 THEN [i |-> i, data |-> data]
    ELSE insertionSortN(insertDown(data, i), i + 1, n - 1)

\* insertion sort from element i on
RECURSIVE insertionSortFrom(_, _)
insertionSortFrom(data, i) ==
    LET r == insertionSortN(data, i, LoopRun)
    IN  IF r.i > Len(data) THEN r.data ELSE insertionSortFrom(r.data, r.i)

insertionSort(data) == insertionSortFrom(data, 2)

\* every release of the sort package sorts a slice of up to InsertionLen
\* elements by insertionSort alone
InsertionLen == 6

\* neither is less than the other
tied(a, b) == ~less(a, b) /\ ~less(b, a)

swapAdjacent(data, i) == [data EXCEPT ![i] = data[i + 1], ![i + 1] = data[i]]

\* the arrangements reached from those of S by exchanging neighbours that are tied
RECURSIVE tieOrders(_)
tieOrders(S) ==
    LET T == S \cup UNION { { swapAdjacent(r, i) :
                                i \in { k \in 1..(Len(r) - 1) : tied(r[k], r[k + 1]) } } : r \in S }
    IN  IF T = S THEN S ELSE tieOrders(T)

\* sort.Slice(results, less): the slices it can leave.  Up to InsertionLen
\* elements it is an insertion sort.  A longer slice goes through the
\* library's shell pass or quicksort partitioning, which depend on the
\* release; sort.Slice leaves the order of tied elements open ("not
\* guaranteed to be stable"): any arrangement in which no element is less
\* than one before it, that is the insertion-sorted slice with tied elements
\* in any order.
sortSlice(data) ==
    IF Len(data) <= InsertionLen THEN { insertionSort(data) }
    ELSE tieOrders({ insertionSort(data) })

\* lines 409-416: one cell per outcome, the last octet in the alive/dead colour
Cell(res) == [octet |-> getLastOctet(res.IP), alive |-> res.Alive]

\* lines 433-438 with every outcome counted: aliveCount++ outside the if
aliveCount_CountsAll(rs) == Len(rs)

\* lines 433-438: aliveCount, the number of outcomes with Alive set
aliveCount(rs) == Cardinality({ i \in 1..Len(rs) : rs[i].Alive })

\* lines 440-446: Alive: aliveCount | Dead: len(results)-aliveCount | Total: len(results)
Summary(rs) ==
    [alive |-> aliveCount(rs), dead |-> Len(rs) - aliveCount(rs), total |-> Len(rs)]

\* lines 464-470: one row per outcome, the address and UP / DOWN
Row(res) == [ip |-> res.IP, status |-> IF res.Alive THEN "UP" ELSE "DOWN"]

---------------------------------------------------------------------------
(* Spec: the scan of one chunk, processCIDR lines 216-229 with             *)
(* pingAllWithConcurrency (318-355), showProgress (233-268) and the        *)
(* reporter (398-473).  Every channel operation, every return of pingIP    *)
(* and every WaitGroup operation is one step.                              *)

\* the scans have at most MaxIPs addresses and a ceiling of at most MaxThreads
MaxIPs == 3
MaxThreads == 2

Dotted(a, b, c, d) == IPString(<<a, b, c, d>>)

\* The address lists scanned: the hosts of two /30 chunks as parseCIDR
\* returns them, and longer lists given in an order that is not the sorted
\* one (pingAllWithConcurrency takes any list).
ScanLists ==
    { parseCIDR(V4(<<10, 0, 0, 0>>, 30)).ips,
      parseCIDR(V4(<<10, 0, 0, 8>>, 30)).ips,
      <<Dotted(10, 0, 0, 2), Dotted(10, 0, 0, 15), Dotted(10, 0, 0, 3)>>,
      <<Dotted(10, 0, 0, 2), Dotted(10, 0, 0, 15), Dotted(10, 0, 0, 3), Dotted(10, 0, 0, 1)>> }

ScanInputs == { l \in ScanLists : Len(l) <= MaxIPs }

Tasks == 1..Len(ips)

\* make(chan struct{}, maxThreads), make(chan PingResult, len(ips)),
\* make(chan int, totalIPs): the capacities
SemaphoreCap == maxThreads
ResultsCap == Len(ips)
ProgressCap_OneShort(n) == n - 1
ProgressCap(n) == n

\* a send on a buffered channel proceeds when the buffer has room
HasRoom_Always(n, cap) == TRUE
HasRoom(n, cap) == n < cap

\* wg.Wait() returns when the counter is zero
WaitReturns_Early(counter) == TRUE
WaitReturns(counter) == counter = 0

\* The statements of the goroutine of lines 330-339 in program order: the
\* position after each
TaskAfter_SignalFirst(pc) ==
    CASE pc = "acquire"  -> "ping"
      [] pc = "ping"     -> "send"
      [] pc = "send"     -> "progress"
      [] pc = "progress" -> "release"
      [] pc = "release"  -> "exit"
      [] pc = "exit"     -> "done"

\* the goroutine body without the progress signal
TaskAfter_NoSignal(pc) ==
    CASE pc = "acquire"  -> "ping"
      [] pc = "ping"     -> "send"
      [] pc = "send"     -> "release"
      [] pc = "release"  -> "exit"
      [] pc = "progress" -> "exit"
      [] pc = "exit"     -> "done"

\* the goroutine body with wg.Done() not deferred but called right after pingIP
TaskAfter_DoneFirst(pc) ==
    CASE pc = "acquire"  -> "ping"
      [] pc = "ping"     -> "exit"
      [] pc = "exit"     -> "send"
      [] pc = "send"     -> "release"
      [] pc = "release"  -> "progress"
      [] pc = "progress" -> "done"

TaskAfter(pc) ==
    CASE pc = "acquire"  -> "ping"
      [] pc = "ping"     -> "send"
      [] pc = "send"     -> "release"
      [] pc = "release"  -> "progress"
      [] pc = "progress" -> "exit"
      [] pc = "exit"     -> "done"

\* after line 218: the channels are made and empty, showProgress is started,
\* pingAllWithConcurrency is at the head of its loop over ips
ScanBegun ==
    /\ mainPc = "spawn"
    /\ spawnIdx = 0
    /\ taskPc = [t \in Tasks |-> "none"]
    /\ taskResult = [t \in Tasks |-> [IP |-> <<>>, Alive |-> FALSE]]
    /\ taskReleased = [t \in Tasks |-> FALSE]
    /\ taskSignalled = [t \in Tasks |-> FALSE]
    /\ semaphore = 0
    /\ results = <<>>
    /\ resultsClosed = FALSE
    /\ progress = 0
    /\ wg = 0
    /\ closerPc = "none"
    /\ pingResults = <<>>
    /\ doneClosed = FALSE
    /\ monPc = "run"
    /\ monCount = 0
    /\ reportIn = <<>>
    /\ console = <<>>
    /\ logRows = <<>>
    /\ summary = NoSummary

ScanInit ==
    /\ ips \in ScanInputs
    /\ maxThreads \in 1..MaxThreads
    /\ ScanBegun

Init == ScanInit /\ ExpandIdle /\ LoopIdle /\ RunIdle

\* the variables of the other specifications
otherVars == <<expandVars, loopVars, runVars>>

\* lines 328-340, one iteration: wg.Add(1); go func(ip)
Spawn ==
    /\ mainPc = "spawn"
    /\ spawnIdx < Len(ips)
    /\ spawnIdx' = spawnIdx + 1
    /\ wg' = wg + 1
    /\ taskPc' = [taskPc EXCEPT ![spawnIdx + 1] = "acquire"]
    /\ UNCHANGED <<ips, maxThreads, mainPc, taskResult, taskReleased, taskSignalled,
                   semaphore, results, resultsClosed, progress, doneClosed, closerPc,
                   pingResults, monVars, reportVars>>
    /\ UNCHANGED otherVars

\* lines 343-346: the loop is over; go func() { wg.Wait(); close(results) }
StartCloser ==
    /\ mainPc = "spawn"
    /\ spawnIdx = Len(ips)
    /\ mainPc' = "collect"
    /\ closerPc' = "wait"
    /\ UNCHANGED <<ips, maxThreads, spawnIdx, taskVars, chanVars, pingResults,
                   monVars, reportVars>>
    /\ UNCHANGED otherVars

\* line 332: semaphore <- struct{}{} , blocking while all slots are taken
Acquire(t) ==
    /\ taskPc[t] = "acquire"
    /\ HasRoom(semaphore, SemaphoreCap)
    /\ semaphore' = semaphore + 1
    /\ taskPc' = [taskPc EXCEPT ![t] = TaskAfter("acquire")]
    /\ UNCHANGED <<ips, maxThreads, mainPc, spawnIdx, taskResult, taskReleased,
                   taskSignalled, results, resultsClosed, progress, wg, doneClosed,
                   closerPc, pingResults, monVars, reportVars>>
    /\ UNCHANGED otherVars

\* line 334: pingIP(ip, timeoutMs) returns, alive or not
PingReturn(t) ==
    /\ taskPc[t] = "ping"
    /\ \E alive \in BOOLEAN :
         taskResult' = [taskResult EXCEPT ![t] = [IP |-> ips[t], Alive |-> alive]]
    /\ taskPc' = [taskPc EXCEPT ![t] = TaskAfter("ping")]
    /\ UNCHANGED <<ips, maxThreads, mainPc, spawnIdx, taskReleased, taskSignalled,
                   chanVars, closerPc, pingResults, monVars, reportVars>>
    /\ UNCHANGED otherVars

\* line 335: results <- result ; a send on a closed channel panics
SendResult(t) ==
    /\ taskPc[t] = "send"
    /\ mainPc # "panic"
    /\ \/ /\ ~resultsClosed
          /\ HasRoom(Len(results), ResultsCap)
          /\ results' = Append(results, taskResult[t])
          /\ taskPc' = [taskPc EXCEPT ![t] = TaskAfter("send")]
          /\ UNCHANGED mainPc
       \/ /\ resultsClosed
          /\ mainPc' = "panic"
          /\ UNCHANGED <<results, taskPc>>
    /\ UNCHANGED <<ips, maxThreads, spawnIdx, taskResult, taskReleased, taskSignalled,
                   semaphore, resultsClosed, progress, wg, doneClosed, closerPc,
                   pingResults, monVars, reportVars>>
    /\ UNCHANGED otherVars

\* line 337: <-semaphore
ReleaseSlot(t) ==
    /\ taskPc[t] = "release"
    /\ semaphore > 0
    /\ semaphore' = semaphore - 1
    /\ taskReleased' = [taskReleased EXCEPT ![t] = TRUE]
    /\ taskPc' = [taskPc EXCEPT ![t] = TaskAfter("release")]
    /\ UNCHANGED <<ips, maxThreads, mainPc, spawnIdx, taskResult, taskSignalled,
                   results, resultsClosed, progress, wg, doneClosed, closerPc,
                   pingResults, monVars, reportVars>>
    /\ UNCHANGED otherVars

\* line 338: progress <- 1 , blocking while the buffer is full
SendProgress(t) ==
    /\ taskPc[t] = "progress"
    /\ HasRoom(progress, ProgressCap(Len(ips)))
    /\ progress' = progress + 1
    /\ taskSignalled' = [taskSignalled EXCEPT ![t] = TRUE]
    /\ taskPc' = [taskPc EXCEPT ![t] = TaskAfter("progress")]
    /\ UNCHANGED <<ips, maxThreads, mainPc, spawnIdx, taskResult, taskReleased,
                   semaphore, results, resultsClosed, wg, doneClosed, closerPc,
                   pingResults, monVars, reportVars>>
    /\ UNCHANGED otherVars

\* line 331: the deferred wg.Done()
TaskDone(t) ==
    /\ taskPc[t] = "exit"
    /\ wg' = wg - 1
    /\ taskPc' = [taskPc EXCEPT ![t] = TaskAfter("exit")]
    /\ UNCHANGED <<ips, maxThreads, mainPc, spawnIdx, taskResult, taskReleased,
                   taskSignalled, semaphore, results, resultsClosed, progress,
                   doneClosed, closerPc, pingResults, monVars, reportVars>>
    /\ UNCHANGED otherVars

\* line 344: wg.Wait() returns
CloserWaitReturns ==
    /\ closerPc = "wait"
    /\ WaitReturns(wg)
    /\ closerPc' = "close"
    /\ UNCHANGED <<ips, maxThreads, mainPc, spawnIdx, taskVars, chanVars, pingResults,
                   monVars, reportVars>>
    /\ UNCHANGED otherVars

\* line 345: close(results)
CloserClose ==
    /\ closerPc = "close"
    /\ resultsClosed' = TRUE
    /\ closerPc' = "done"
    /\ UNCHANGED <<ips, maxThreads, mainPc, spawnIdx, taskVars, semaphore, results,
                   progress, wg, doneClosed, pingResults, monVars, reportVars>>
    /\ UNCHANGED otherVars

\* lines 349-351: for res := range results { append }
CollectRecv ==
    /\ mainPc = "collect"
    /\ results # <<>>
    /\ pingResults' = Append(pingResults, Head(results))
    /\ results' = Tail(results)
    /\ UNCHANGED <<ips, maxThreads, mainPc, spawnIdx, taskVars, semaphore,
                   resultsClosed, progress, wg, doneClosed, closerPc, monVars, reportVars>>
    /\ UNCHANGED otherVars

\* lines 349-354: the channel is closed and drained; return pingResults
CollectEnd ==
    /\ mainPc = "collect"
    /\ results = <<>>
    /\ resultsClosed
    /\ mainPc' = "returned"
    /\ reportIn' = pingResults
    /\ UNCHANGED <<ips, maxThreads, spawnIdx, taskVars, chanVars, closerPc, pingResults,
                   monVars, console, logRows, summary>>
    /\ UNCHANGED otherVars

\* line 221: close(done)
CloseDone ==
    /\ mainPc = "returned"
    /\ doneClosed' = TRUE
    /\ mainPc' = "closedDone"
    /\ UNCHANGED <<ips, maxThreads, spawnIdx, taskVars, semaphore, results,
                   resultsClosed, progress, wg, closerPc, pingResults, monVars, reportVars>>
    /\ UNCHANGED otherVars

\* line 225: printResults sorts the slice in place and prints the cells
PrintResults ==
    /\ mainPc = "closedDone"
    /\ \E sorted \in sortSlice(pingResults) :
         /\ pingResults' = sorted
         /\ console' = [i \in 1..Len(sorted) |-> Cell(sorted[i])]
         /\ summary' = Summary(sorted)
    /\ mainPc' = "printed"
    /\ UNCHANGED <<ips, maxThreads, spawnIdx, taskVars, chanVars, closerPc, monVars,
                   reportIn, logRows>>
    /\ UNCHANGED otherVars

\* line 228: saveSortedResultsToLog sorts the slice again and writes the rows
SaveSortedResultsToLog ==
    /\ mainPc = "printed"
    /\ \E sorted \in sortSlice(pingResults) :
         /\ pingResults' = sorted
         /\ logRows' = [i \in 1..Len(sorted) |-> Row(sorted[i])]
    /\ mainPc' = "logged"
    /\ UNCHANGED <<ips, maxThreads, spawnIdx, taskVars, chanVars, closerPc, monVars,
                   reportIn, console, summary>>
    /\ UNCHANGED otherVars

\* line 129 after the last chunk: main returns and the process ends, with
\* every goroutine still running
MainReturns ==
    /\ mainPc = "logged"
    /\ mainPc' = "exit"
    /\ UNCHANGED <<ips, maxThreads, spawnIdx, taskVars, chanVars, closerPc, pingResults,
                   monVars, reportVars>>
    /\ UNCHANGED otherVars

\* line 243 counting two per signal
countAfter_ByTwo(count) == count + 2

\* line 243: count++
countAfter(count) == count + 1

\* lines 239-257: showProgress receives a signal, counts it, and prints the
\* percentage and the estimate from the new count
MonitorRecv ==
    /\ monPc = "run"
    /\ mainPc # "exit"
    /\ progress > 0
    /\ progress' = progress - 1
    /\ monCount' = countAfter(monCount)
    /\ UNCHANGED <<ips, maxThreads, mainPc, spawnIdx, taskVars, semaphore, results,
                   resultsClosed, wg, doneClosed, closerPc, pingResults, monPc, reportVars>>
    /\ UNCHANGED otherVars

\* lines 258-265: showProgress takes the done case, prints the final line, returns
MonitorDone ==
    /\ monPc = "run"
    /\ mainPc # "exit"
    /\ doneClosed
    /\ monPc' = "exited"
    /\ UNCHANGED <<ips, maxThreads, mainPc, spawnIdx, taskVars, chanVars, closerPc,
                   pingResults, monCount, reportVars>>
    /\ UNCHANGED otherVars

TaskStep(t) ==
    \/ Acquire(t)
    \/ PingReturn(t)
    \/ SendResult(t)
    \/ ReleaseSlot(t)
    \/ SendProgress(t)
    \/ TaskDone(t)

\* the goroutine that runs processCIDR
MainStep ==
    \/ Spawn
    \/ StartCloser
    \/ CollectRecv
    \/ CollectEnd
    \/ CloseDone
    \/ PrintResults
    \/ SaveSortedResultsToLog

\* the goroutine of lines 343-346
CloserStep == CloserWaitReturns \/ CloserClose

\* the goroutine running showProgress
MonitorStep == MonitorRecv \/ MonitorDone

Next ==
    \/ \E t \in Tasks : Acquire(t)
    \/ \E t \in Tasks : PingReturn(t)
    \/ \E t \in Tasks : SendResult(t)
    \/ \E t \in Tasks : ReleaseSlot(t)
    \/ \E t \in Tasks : SendProgress(t)
    \/ \E t \in Tasks : TaskDone(t)
    \/ Spawn
    \/ StartCloser
    \/ CloserWaitReturns
    \/ CloserClose
    \/ CollectRecv
    \/ CollectEnd
    \/ CloseDone
    \/ PrintResults
    \/ SaveSortedResultsToLog
    \/ MonitorRecv
    \/ MonitorDone
    \/ MainReturns

Spec == Init /\ [][Next]_vars

\* LiveSpec: every goroutine that can take a step eventually takes one (the
\* Go scheduler), and every pingIP call returns (its timeout), except that
\* nothing is assumed of showProgress: it may never be scheduled.
LiveSpec ==
    /\ Init
    /\ [][Next]_vars
    /\ \A t \in 1..MaxIPs : WF_vars(t \in Tasks /\ TaskStep(t))
    /\ WF_vars(MainStep)
    /\ WF_vars(CloserStep)

\* MonitorLiveSpec: LiveSpec with showProgress scheduled as well.  Whether
\* main returns after this chunk (it was the last) is left open.
MonitorLiveSpec == LiveSpec /\ WF_vars(MonitorStep)

---------------------------------------------------------------------------
(* Numeric reading of addresses, for stating the properties.  A 32-bit     *)
(* value is held as its two 16-bit halves <<hi, lo>>.                      *)

Num(ip) == <<ip[1] * 256 + ip[2], ip[3] * 256 + ip[4]>>

\* uint32 addition n + k, formed in the two halves: the carry of the low
\* half goes into the high half, the carry out of bit 31 is dropped
NumAdd(n, k) == <<(n[1] + (n[2] + k) \div 65536) % 65536, (n[2] + k) % 65536>>

\* the first address of the block of cidr: the low 32-ones bits cleared
NetworkNum(cidr) ==
    LET n == Num(cidr.addr)
        h == 32 - LowOnes(cidr)
    IN  IF h <= 16 THEN <<n[1], n[2] - (n[2] % Pow2(h))>>
        ELSE <<n[1] - (n[1] % Pow2(h - 16)), 0>>

\* the address a dotted-decimal string denotes
StringNum(str) == Num([i \in 1..IPv4len |-> Atoi(str[i])])

---------------------------------------------------------------------------
(* ReportSpec: printResults followed by saveSortedResultsToLog, as in      *)
(* processCIDR lines 225-228, on any outcome list.                         *)

\* outcome lists of up to MaxReport addresses
MaxReport == 3

\* two subnets, one last octet in both, octets of one and two digits
ReportPool ==
    { Dotted(10, 0, 0, 2), Dotted(10, 0, 0, 15), Dotted(10, 0, 0, 3), Dotted(10, 0, 1, 2) }

\* a list of thirteen: the last octets in the order given, all in 10.0.0.0/24
\* but the ninth, which is x.20
LongOctets == <<1, 20, 2, 3, 4, 5, 10, 11, 20, 12, 13, 14, 6>>

LongList(third, ninth) ==
    [i \in 1..Len(LongOctets) |->
        [IP |-> IF i = 9 THEN Dotted(10, 0, third, ninth) ELSE Dotted(10, 0, 0, LongOctets[i]),
         Alive |-> i % 2 = 1]]

ReportInputs ==
    { r \in UNION { [1..n -> [IP : ReportPool, Alive : BOOLEAN]] : n \in 1..MaxReport } :
        \A i, j \in 1..Len(r) : i # j => r[i].IP # r[j].IP }
    \cup { LongList(1, 20), LongList(0, 21) }

ReportInit ==
    /\ ips = <<>>
    /\ maxThreads = 0
    /\ mainPc = "closedDone"
    /\ spawnIdx = 0
    /\ taskPc = <<>>
    /\ taskResult = <<>>
    /\ taskReleased = <<>>
    /\ taskSignalled = <<>>
    /\ semaphore = 0
    /\ results = <<>>
    /\ resultsClosed = TRUE
    /\ progress = 0
    /\ wg = 0
    /\ closerPc = "done"
    /\ pingResults \in ReportInputs
    /\ doneClosed = TRUE
    /\ monPc = "exited"
    /\ monCount = 0
    /\ reportIn = pingResults
    /\ console = <<>>
    /\ logRows = <<>>
    /\ summary = NoSummary
    /\ ExpandIdle
    /\ LoopIdle
    /\ RunIdle

ReportNext == PrintResults \/ SaveSortedResultsToLog

ReportSpec == ReportInit /\ [][ReportNext]_vars

---------------------------------------------------------------------------
(* RunSpec: main from line 112 on.  splitCIDRs, then for every CIDR        *)
(* splitIntoSubnets and for every subnet processCIDR.  A processCIDR call   *)
(* that scans runs the steps of Spec: the goroutines of                    *)
(* pingAllWithConcurrency and showProgress interleave as there.  The       *)
(* showProgress goroutine of a call is not waited for: when processCIDR    *)
(* returns it may still be running, beside the calls that follow.          *)

\* the -c string has at most MaxCidrs parts
MaxCidrs == 2

\* isValidCIDR: net.ParseCIDR returns no error
isValidCIDR(cidr) == cidr.fam # "bad"

\* splitCIDRs cut short at the first part that is not valid
splitCIDRs_StopAtInvalid(parts) ==
    IF \A i \in 1..Len(parts) : isValidCIDR(parts[i]) THEN parts
    ELSE SubSeq(parts, 1, (CHOOSE i \in 1..Len(parts) :
                              /\ ~isValidCIDR(parts[i])
                              /\ \A j \in 1..(i - 1) : isValidCIDR(parts[j])) - 1)

\* splitCIDRs, lines 137-143: the parts that are valid, in order
splitCIDRs(parts) == SelectSeq(parts, isValidCIDR)

\* The parts tried: malformed, IPv6, /32, /31, two blocks of 2 hosts (one
\* written with host bits set) and an IPv4-mapped block of 2 hosts,
\* ::ffff:10.0.1.77/126.
RunTokens ==
    { [fam |-> "bad", addr |-> <<>>, ones |-> 0],
      [fam |-> "v6", addr |-> V6Addr, ones |-> 64],
      V4(<<192, 168, 1, 130>>, 32),
      V4(<<10, 0, 0, 0>>, 31),
      V4(<<10, 0, 0, 0>>, 30),
      V4(<<192, 168, 1, 130>>, 30),
      [fam |-> "v4in6", addr |-> <<10, 0, 1, 77>>, ones |-> V4InV6Bits + 30] }

\* the parts whose scans, if any, have at most MaxIPs addresses
RunParts == { c \in RunTokens : Len(parseCIDR(c).ips) <= MaxIPs }

RunArgs == UNION { [1..n -> RunParts] : n \in 0..MaxCidrs }

\* main up to line 111: the flags are read, threads is positive (95-99)
RunInit ==
    /\ cidrArgs \in RunArgs
    /\ cidrList = <<>>
    /\ runPc = "start"
    /\ cidrIdx = 0
    /\ subnets = <<>>
    /\ subIdx = 0
    /\ handled = <<>>
    /\ strays = <<>>
    /\ maxThreads \in 1..MaxThreads
    /\ NoScan
    /\ ExpandIdle
    /\ LoopIdle

\* lines 112-116: cidrList := splitCIDRs(cidrs); nothing valid: return
RunSplitCIDRs ==
    /\ runPc = "start"
    /\ cidrList' = splitCIDRs(cidrArgs)
    /\ runPc' = IF Len(splitCIDRs(cidrArgs)) = 0 THEN "noValid" ELSE "cidr"
    /\ cidrIdx' = 1
    /\ UNCHANGED <<cidrArgs, subnets, subIdx, handled, strays, expandVars, loopVars,
                   scanVars>>

\* lines 118-123: the next CIDR: subnets := splitIntoSubnets(cidr)
RunSplitIntoSubnets ==
    /\ runPc = "cidr"
    /\ cidrIdx <= Len(cidrList)
    /\ subnets' = splitIntoSubnets(cidrList[cidrIdx])
    /\ IF Len(splitIntoSubnets(cidrList[cidrIdx])) = 0
       THEN cidrIdx' = cidrIdx + 1 /\ UNCHANGED <<runPc, subIdx>>
       ELSE subIdx' = 1 /\ runPc' = "subnet" /\ UNCHANGED cidrIdx
    /\ UNCHANGED <<cidrArgs, cidrList, handled, strays, expandVars, loopVars, scanVars>>

\* line 129: the outer loop is over; main returns and the process ends
RunEnd ==
    /\ runPc = "cidr"
    /\ cidrIdx > Len(cidrList)
    /\ runPc' = "end"
    /\ UNCHANGED <<cidrArgs, cidrList, cidrIdx, subnets, subIdx, handled, strays,
                   expandVars, loopVars, scanVars>>

\* lines 124-127: the inner loop moves on after processCIDR has returned
RunAdvance ==
    IF subIdx < Len(subnets)
    THEN subIdx' = subIdx + 1 /\ runPc' = "subnet" /\ UNCHANGED cidrIdx
    ELSE cidrIdx' = cidrIdx + 1 /\ runPc' = "cidr" /\ UNCHANGED subIdx

\* lines 199-210: processCIDR(subnet) returns early, error or warning
RunProcessEarly ==
    /\ runPc = "subnet"
    /\ processCIDRStart(subnets[subIdx]) # "scan"
    /\ handled' = Append(handled, [cidr |-> subnets[subIdx],
                                   did  |-> processCIDRStart(subnets[subIdx]),
                                   rows |-> <<>>])
    /\ RunAdvance
    /\ UNCHANGED <<cidrArgs, cidrList, subnets, strays, expandVars, loopVars, scanVars>>

\* lines 200-220: processCIDR(subnet) has addresses to scan: the channels
\* are made, showProgress is started, pingAllWithConcurrency is entered
\* (ScanBegun holds of the new state)
RunStartScan ==
    /\ runPc = "subnet"
    /\ processCIDRStart(subnets[subIdx]) = "scan"
    /\ ips' = parseCIDR(subnets[subIdx]).ips
    /\ mainPc' = "spawn"
    /\ spawnIdx' = 0
    /\ taskPc' = [t \in 1..Len(ips') |-> "none"]
    /\ taskResult' = [t \in 1..Len(ips') |-> [IP |-> <<>>, Alive |-> FALSE]]
    /\ taskReleased' = [t \in 1..Len(ips') |-> FALSE]
    /\ taskSignalled' = [t \in 1..Len(ips') |-> FALSE]
    /\ semaphore' = 0
    /\ results' = <<>>
    /\ resultsClosed' = FALSE
    /\ progress' = 0
    /\ wg' = 0
    /\ closerPc' = "none"
    /\ pingResults' = <<>>
    /\ doneClosed' = FALSE
    /\ monPc' = "run"
    /\ monCount' = 0
    /\ reportIn' = <<>>
    /\ console' = <<>>
    /\ logRows' = <<>>
    /\ summary' = NoSummary
    /\ runPc' = "scan"
    /\ UNCHANGED maxThreads
    /\ UNCHANGED <<cidrArgs, cidrList, cidrIdx, subnets, subIdx, handled, strays,
                   expandVars, loopVars>>

\* lines 229, 126: processCIDR returns after the report.  Its goroutines of
\* lines 330-346 are over and its locals are gone (NoScan holds again); its
\* showProgress goes on, with its channels, if it has not returned.
RunProcessReturns ==
    /\ runPc = "scan"
    /\ mainPc = "logged"
    /\ handled' = Append(handled, [cidr |-> subnets[subIdx],
                                   did  |-> "scan",
                                   rows |-> [i \in 1..Len(logRows) |-> logRows[i].ip]])
    /\ strays' = IF monPc = "run"
                 THEN Append(strays, [progress |-> progress, count |-> monCount])
                 ELSE strays
    /\ ips' = <<>>
    /\ mainPc' = "idle"
    /\ spawnIdx' = 0
    /\ taskPc' = <<>>
    /\ taskResult' = <<>>
    /\ taskReleased' = <<>>
    /\ taskSignalled' = <<>>
    /\ semaphore' = 0
    /\ results' = <<>>
    /\ resultsClosed' = FALSE
    /\ progress' = 0
    /\ wg' = 0
    /\ closerPc' = "none"
    /\ pingResults' = <<>>
    /\ doneClosed' = FALSE
    /\ monPc' = "idle"
    /\ monCount' = 0
    /\ reportIn' = <<>>
    /\ console' = <<>>
    /\ logRows' = <<>>
    /\ summary' = NoSummary
    /\ RunAdvance
    /\ UNCHANGED maxThreads
    /\ UNCHANGED <<cidrArgs, cidrList, subnets, expandVars, loopVars>>

\* strays without the k-th
Without(seq, k) == SubSeq(seq, 1, k - 1) \o SubSeq(seq, k + 1, Len(seq))

\* lines 239-257 in the showProgress of an earlier call: a signal left in
\* its progress channel is received and counted
StrayRecv ==
    /\ runPc \notin {"end", "noValid"}
    /\ \E k \in 1..Len(strays) :
         /\ strays[k].progress > 0
         /\ strays' = [strays EXCEPT ![k] = [progress |-> strays[k].progress - 1,
                                            count    |-> countAfter(strays[k].count)]]
    /\ UNCHANGED <<cidrArgs, cidrList, runPc, cidrIdx, subnets, subIdx, handled,
                   expandVars, loopVars, scanVars>>

\* lines 258-265 in the showProgress of an earlier call: its done channel is
\* closed; it prints its final line and returns
StrayDone ==
    /\ runPc \notin {"end", "noValid"}
    /\ \E k \in 1..Len(strays) : strays' = Without(strays, k)
    /\ UNCHANGED <<cidrArgs, cidrList, runPc, cidrIdx, subnets, subIdx, handled,
                   expandVars, loopVars, scanVars>>

RunNext ==
    \/ RunSplitCIDRs
    \/ RunSplitIntoSubnets
    \/ RunEnd
    \/ RunProcessEarly
    \/ RunStartScan
    \/ \E t \in Tasks : Acquire(t)
    \/ \E t \in Tasks : PingReturn(t)
    \/ \E t \in Tasks : SendResult(t)
    \/ \E t \in Tasks : ReleaseSlot(t)
    \/ \E t \in Tasks : SendProgress(t)
    \/ \E t \in Tasks : TaskDone(t)
    \/ Spawn
    \/ StartCloser
    \/ CloserWaitReturns
    \/ CloserClose
    \/ CollectRecv
    \/ CollectEnd
    \/ CloseDone
    \/ PrintResults
    \/ SaveSortedResultsToLog
    \/ MonitorRecv
    \/ MonitorDone
    \/ RunProcessReturns
    \/ StrayRecv
    \/ StrayDone

RunSpec == RunInit /\ [][RunNext]_vars

---------------------------------------------------------------------------
(* Claims about the Dispatcher                                             *)

\* pingAllWithConcurrency has returned
Returned == mainPc \in {"returned", "closedDone", "printed", "logged"}

\* C1: when pingAllWithConcurrency has returned, what it returned holds
\* exactly one outcome per input address (N outcomes, every address once,
\* the outcome being what pingIP returned for it), and nothing is pending:
\* every goroutine has finished and the results channel is empty.
C1_ExactlyOnePerAddress ==
    Returned =>
        /\ Len(reportIn) = Len(ips)
        /\ \A t \in Tasks :
              /\ Cardinality({ i \in 1..Len(reportIn) : reportIn[i].IP = ips[t] }) = 1
              /\ \E i \in 1..Len(reportIn) : reportIn[i] = taskResult[t]
              /\ taskPc[t] = "done"
        /\ results = <<>>
        /\ wg = 0

\* C1 witness: a scan of three addresses has returned, the outcome of the
\* last address first
C1_Witness ==
    /\ mainPc = "returned"
    /\ Len(ips) = 3
    /\ reportIn[1].IP = ips[3]
    /\ reportIn[1].Alive
    /\ ~reportIn[2].Alive

\* the goroutines inside pingIP, and those holding a slot
Probing == { t \in Tasks : taskPc[t] = "ping" }
Holding == { t \in Tasks : taskPc[t] \in {"ping", "send", "release"} }

\* C2: at most maxThreads goroutines are inside pingIP; each of them holds
\* one of the slots, of which never more than maxThreads are taken; a
\* goroutine without a slot is waiting at the semaphore (it has not been
\* dropped: its state is "acquire").
C2_CeilingRespected ==
    /\ Cardinality(Probing) <= maxThreads
    /\ Cardinality(Holding) = semaphore
    /\ semaphore <= maxThreads
    /\ \A t \in Tasks : taskPc[t] \in {"none", "acquire"} \/ t \in Holding \/ taskReleased[t]

\* C2 witness: three addresses, ceiling 2: two goroutines probing at once,
\* the third waiting for a slot
C2_Witness ==
    /\ Len(ips) = 3
    /\ maxThreads = 2
    /\ Cardinality(Probing) = 2
    /\ \E t \in Tasks : taskPc[t] = "acquire"

\* C7: no goroutine ever finds the progress channel full, and the scan
\* returns with the complete outcome set, whatever showProgress does: under
\* LiveSpec nothing makes showProgress receive.
C7_MonitorNeverBlocksScan ==
    /\ [](\A t \in Tasks : taskPc[t] = "progress" => progress < ProgressCap(Len(ips)))
    /\ <>(Returned /\ Len(reportIn) = Len(ips))

\* C7 witness: the scan has returned and showProgress has not received a
\* single signal: all of them sit in the channel
C7_Witness ==
    /\ mainPc = "returned"
    /\ Len(reportIn) = Len(ips)
    /\ monCount = 0
    /\ monPc = "run"
    /\ progress = Len(ips)

\* C8 as stated: a goroutine that has released its slot has already sent
\* its progress signal.
C8_SignalBeforeRelease ==
    \A t \in Tasks : taskReleased[t] => taskSignalled[t]

\* C8 amended: a goroutine that has sent its progress signal has already
\* released its slot, and one that has finished has sent its signal.
C8_ReleaseBeforeSignal ==
    \A t \in Tasks :
        /\ taskSignalled[t] => taskReleased[t]
        /\ taskPc[t] = "done" => taskSignalled[t]

\* C8 witness: a goroutine has released its slot and then sent its signal
C8_Witness ==
    \E t \in Tasks : taskPc[t] = "exit" /\ taskReleased[t] /\ taskSignalled[t]

\* C13: processCIDR prints the report of a chunk (the 'Scan completed'
\* line, the grid, the summary) only when showProgress has written its final
\* 'Completed' line.
C13_FinalLineBeforeReport ==
    mainPc \in {"printed", "logged", "exit"} => monPc = "exited"

\* C14: once close(done) has run, showProgress eventually takes its done
\* case, prints the final line and returns.
C14_MonitorFinishes ==
    doneClosed ~> (monPc = "exited")

\* (supporting) as long as the process lives, showProgress does finish
MonitorFinishesUnlessExit ==
    doneClosed ~> (monPc = "exited" \/ mainPc = "exit")

\* (supporting) showProgress, once returned, receives nothing more and does
\* not run again
MonitorStaysExited ==
    [][monPc = "exited" => (monPc' = "exited" /\ monCount' = monCount)]_vars

\* no goroutine of the scan is running or holds a slot
ScanQuiet ==
    /\ \A t \in Tasks : taskPc[t] = "done"
    /\ semaphore = 0
    /\ wg = 0
    /\ closerPc = "done"
    /\ resultsClosed /\ results = <<>>

\* C15: from the return of pingAllWithConcurrency on, thus whenever
\* printResults or saveSortedResultsToLog start or have run, no per-address
\* goroutine is running or holds a slot, and from then on no outcome is
\* written: the goroutines' results, the results channel and the collection
\* handed over stay as they are.
C15_ReportAfterAllProbes ==
    /\ [](Returned => ScanQuiet)
    /\ [][Returned => UNCHANGED <<taskPc, taskResult, results, reportIn>>]_vars

\* C15 witness: printResults has run on the three outcomes of a scan that is
\* quiet
C15_Witness ==
    /\ mainPc = "printed"
    /\ Len(console) = 3
    /\ ScanQuiet
    /\ \E i \in 1..3 : reportIn[i] # pingResults[i]

\* the goroutines that have sent their progress signal
Signalled == { t \in Tasks : taskSignalled[t] }

\* C16: every signal sent is in the channel or has been received (none is
\* dropped), the channel never holds more than its capacity N, no goroutine
\* sends more than once, and when pingAllWithConcurrency has returned (so
\* before close(done)) exactly N signals have been sent.
C16_OneSignalPerAddress ==
    /\ progress + monCount = Cardinality(Signalled)
    /\ progress <= Len(ips)
    /\ \A t \in Tasks : taskPc[t] \in {"exit", "done"} <=> taskSignalled[t]
    /\ (Returned \/ doneClosed) => Cardinality(Signalled) = Len(ips)

\* C16 witness: the scan of three addresses has returned, close(done) has
\* not run yet, three signals sent: one received, two in the channel
C16_Witness ==
    /\ mainPc = "returned"
    /\ ~doneClosed
    /\ Cardinality(Signalled) = 3
    /\ monCount = 1
    /\ progress = 2

\* the goroutines whose pingIP call has returned
Probed == { t \in Tasks : taskPc[t] \in {"send", "release", "progress", "exit", "done"} }

\* C17: showProgress's count never exceeds the number of probes that have
\* finished, nor total; and whenever it receives a signal and computes the
\* percentage and the estimate, the count it uses is at least 1 and at most
\* total (no division by zero, total - count >= 0, at most 100%).
C17_CountInRange ==
    /\ [](monCount <= Cardinality(Probed) /\ monCount <= Len(ips))
    /\ [][monCount' # monCount =>
            (1 <= monCount' /\ monCount' <= Len(ips) /\ monCount' = monCount + 1)]_vars

\* C17 witness: showProgress has counted every signal of a scan of three
\* while the last goroutine has not finished yet
C17_Witness ==
    /\ Len(ips) = 3
    /\ monCount = 3
    /\ monPc = "run"
    /\ \E t \in Tasks : taskPc[t] = "exit"

---------------------------------------------------------------------------
(* Claims about the Result Reporter                                        *)

\* the numeric value of an outcome's last octet
OctetOf(res) == Atoi(getLastOctet(res.IP))

Count(seq, x) == Cardinality({ i \in 1..Len(seq) : seq[i] = x })

IsPermutation(a, b) ==
    /\ Len(a) = Len(b)
    /\ \A i \in 1..Len(a) : Count(a, a[i]) = Count(b, a[i])

NoSharedOctet(seq) ==
    \A i, j \in 1..Len(seq) : i # j => OctetOf(seq[i]) # OctetOf(seq[j])

\* C9: once printResults has sorted, the slice is a permutation of the
\* outcomes it was given (addresses with their alive flags), non-decreasing
\* in the numeric last octet, and the console cells render it in that order;
\* once saveSortedResultsToLog has run on a chunk's outcomes (no two with the
\* same last octet), the log has one row per cell, in the order of the
\* cells, with the same octet and the status of the same outcome.
C9_SortedByLastOctet ==
    /\ mainPc \in {"printed", "logged"} =>
          /\ IsPermutation(reportIn, pingResults)
          /\ \A i \in 1..(Len(pingResults) - 1) :
                OctetOf(pingResults[i]) <= OctetOf(pingResults[i + 1])
          /\ Len(console) = Len(reportIn)
          /\ \A i \in 1..Len(console) :
                \E j \in 1..Len(reportIn) :
                    /\ console[i].octet = getLastOctet(reportIn[j].IP)
                    /\ console[i].alive = reportIn[j].Alive
          /\ \A i \in 1..(Len(console) - 1) :
                Atoi(console[i].octet) <= Atoi(console[i + 1].octet)
    /\ mainPc = "logged" /\ NoSharedOctet(reportIn) =>
          /\ Len(logRows) = Len(console)
          /\ \A i \in 1..Len(logRows) :
                /\ getLastOctet(logRows[i].ip) = console[i].octet
                /\ (logRows[i].status = "UP") = console[i].alive
                /\ \E j \in 1..Len(reportIn) : Row(reportIn[j]) = logRows[i]

\* C9 witness: 10.0.0.2, 10.0.0.15, 10.0.0.3 (the second one dead) has been
\* printed and logged as 10.0.0.2, 10.0.0.3, 10.0.0.15
C9_Witness ==
    /\ mainPc = "logged"
    /\ reportIn = << [IP |-> Dotted(10, 0, 0, 2), Alive |-> TRUE],
                     [IP |-> Dotted(10, 0, 0, 15), Alive |-> FALSE],
                     [IP |-> Dotted(10, 0, 0, 3), Alive |-> TRUE] >>
    /\ logRows = << [ip |-> Dotted(10, 0, 0, 2), status |-> "UP"],
                    [ip |-> Dotted(10, 0, 0, 3), status |-> "UP"],
                    [ip |-> Dotted(10, 0, 0, 15), status |-> "DOWN"] >>
    /\ console = << [octet |-> <<2>>, alive |-> TRUE],
                    [octet |-> <<3>>, alive |-> TRUE],
                    [octet |-> <<1, 5>>, alive |-> FALSE] >>

\* where an outcome stands in a slice
IndexOf(seq, x) == CHOOSE i \in 1..Len(seq) : seq[i] = x

\* C10: once printResults has sorted, two outcomes with the same last octet
\* stand in the order they had in the list given.
C10_SortStable ==
    mainPc \in {"printed", "logged"} =>
        \A i, j \in 1..Len(reportIn) :
            i < j /\ OctetOf(reportIn[i]) = OctetOf(reportIn[j]) =>
                IndexOf(pingResults, reportIn[i]) < IndexOf(pingResults, reportIn[j])

\* the goroutines whose pingIP call returned alive
AliveTasks == { t \in Tasks : taskResult[t].Alive }

\* C11: once printResults has run at the end of a scan, the summary's Total
\* is the number of addresses of the chunk, its Alive the number of
\* addresses for which pingIP returned alive, its Dead the difference; and
\* 10.0.0.0/30 expands to exactly 10.0.0.1, 10.0.0.2.
C11_SummaryCounts ==
    /\ parseCIDR(V4(<<10, 0, 0, 0>>, 30)).ips = <<Dotted(10, 0, 0, 1), Dotted(10, 0, 0, 2)>>
    /\ mainPc \in {"printed", "logged"} =>
          /\ summary.total = Len(ips)
          /\ summary.alive = Cardinality(AliveTasks)
          /\ summary.dead = Len(ips) - Cardinality(AliveTasks)
          /\ summary.alive + summary.dead = summary.total

\* C11 witness: the scan of 10.0.0.1, 10.0.0.2 with 10.0.0.1 alive and
\* 10.0.0.2 dead, the outcome of 10.0.0.2 collected first, has printed
\* Alive: 1 | Dead: 1 | Total: 2
C11_Witness ==
    /\ mainPc = "printed"
    /\ ips = <<Dotted(10, 0, 0, 1), Dotted(10, 0, 0, 2)>>
    /\ taskResult[1].Alive /\ ~taskResult[2].Alive
    /\ reportIn[1].IP = Dotted(10, 0, 0, 2)
    /\ summary = [alive |-> 1, dead |-> 1, total |-> 2]

---------------------------------------------------------------------------
(* Claims about main's loop                                                *)

\* the address with number n
FromNum(n) == <<n[1] \div 256, n[1] % 256, n[2] \div 256, n[2] % 256>>

\* a CIDR that has addresses to scan: its address is an IPv4 one (To4,
\* line 291: written as IPv4 or IPv4-mapped) and its block has at least
\* two host bits
Scannable(cidr) == cidr.fam \in {"v4", "v4in6"} /\ LowOnes(cidr) <= 30

\* the chunks of a block: itself from /24 on or when its mask is not a
\* 32-bit one (line 156), else its /24s in ascending order
ChunksOf(cidr) ==
    IF cidr.ones >= 24 \/ cidr.fam # "v4" THEN <<cidr>>
    ELSE [k \in 1..Pow2(24 - cidr.ones) |->
            V4(FromNum(NumAdd(NetworkNum(cidr), 256 * (k - 1))), 24)]

\* the usable addresses of a chunk in ascending order, as strings
HostsOf(cidr) ==
    [k \in 1..(Pow2(32 - LowOnes(cidr)) - 2) |-> IPString(FromNum(NumAdd(NetworkNum(cidr), k)))]

\* the scans a list of parts calls for, in order
RECURSIVE ExpectedScans(_)
ExpectedScans(parts) ==
    IF parts = <<>> THEN <<>>
    ELSE (IF Scannable(Head(parts))
          THEN [k \in 1..Len(ChunksOf(Head(parts))) |->
                  [cidr |-> ChunksOf(Head(parts))[k],
                   did  |-> "scan",
                   rows |-> HostsOf(ChunksOf(Head(parts))[k])]]
          ELSE <<>>) \o ExpectedScans(Tail(parts))

IsScan(h) == h.did = "scan"

RunOver == runPc \in {"end", "noValid"}

\* C12: a part that is malformed, IPv6 or too small is never scanned (no
\* rows); while the run goes on, the scans reported so far are the first of
\* the chunks of the scannable parts, each once, in the order of the list,
\* each with the rows of all its usable addresses; when main returns they
\* are all of them.
C12_ErrorsAreLocal ==
    /\ \A i \in 1..Len(handled) :
          ~Scannable(handled[i].cidr) => handled[i].did # "scan" /\ handled[i].rows = <<>>
    /\ runPc = "scan" => Scannable(subnets[subIdx])
    /\ LET scans    == SelectSeq(handled, IsScan)
           expected == ExpectedScans(cidrArgs)
       IN  /\ Len(scans) <= Len(expected)
           /\ scans = SubSeq(expected, 1, Len(scans))
           /\ RunOver => scans = expected

\* C12 witness: the list 10.0.0.0/31, 10.0.0.0/30 has been run: the warning
\* for the first part, then the second scanned, its answer for 10.0.0.2
\* collected before that for 10.0.0.1, and both addresses reported
C12_Witness ==
    /\ runPc = "end"
    /\ cidrArgs = <<V4(<<10, 0, 0, 0>>, 31), V4(<<10, 0, 0, 0>>, 30)>>
    /\ Len(handled) = 2
    /\ handled[1].did = "warning"
    /\ handled[2] = [cidr |-> V4(<<10, 0, 0, 0>>, 30), did |-> "scan",
                     rows |-> <<Dotted(10, 0, 0, 1), Dotted(10, 0, 0, 2)>>]

\* (supporting) an IPv6 part after a scanned one: the scan is reported, the
\* error follows, the earlier showProgress still running beside it
RunErrorAfterScan ==
    /\ runPc = "cidr"
    /\ cidrArgs = <<V4(<<192, 168, 1, 130>>, 30), [fam |-> "v6", addr |-> V6Addr, ones |-> 64]>>
    /\ Len(handled) = 2
    /\ handled[1].rows = <<Dotted(192, 168, 1, 129), Dotted(192, 168, 1, 130)>>
    /\ handled[2].did = "error"
    /\ Len(strays) = 1

\* a before b as 32-bit numbers
NumLess(a, b) == a[1] < b[1] \/ (a[1] = b[1] /\ a[2] < b[2])

\* C18: every chunk that splitIntoSubnets passes on unchanged and that
\* processCIDR scans has addresses with pairwise distinct last octets.
C18_ChunkOctetsDistinct ==
    (expPc = "parsed" /\ procOut = "scan" /\ splitIntoSubnets(cidrIn) = <<cidrIn>>) =>
        \A i, j \in 1..Len(parseOut.ips) :
            i # j => Atoi(getLastOctet(parseOut.ips[i])) # Atoi(getLastOctet(parseOut.ips[j]))

\* (supporting) for the CIDRs written as IPv4 the chunks passed on unchanged
\* have prefix length >= 24 and their addresses are in one /24, ascending,
\* with ascending last octets
PlainChunkOctetsAscend ==
    (expPc = "parsed" /\ procOut = "scan" /\ cidrIn.fam = "v4"
        /\ splitIntoSubnets(cidrIn) = <<cidrIn>>) =>
        /\ cidrIn.ones >= 24
        /\ \A i \in 1..Len(parseOut.ips) :
              SubSeq(parseOut.ips[i], 1, 3) = SubSeq(parseOut.ips[1], 1, 3)
        /\ \A i \in 1..(Len(parseOut.ips) - 1) :
              /\ Atoi(getLastOctet(parseOut.ips[i])) < Atoi(getLastOctet(parseOut.ips[i + 1]))
              /\ NumLess(StringNum(parseOut.ips[i]), StringNum(parseOut.ips[i + 1]))

\* (supporting) in a run of main, whatever the order in which the outcomes
\* were collected, the sort leaves one arrangement and the console and the
\* log are in the order of parseCIDR
RunChunkSortUnique ==
    (runPc = "scan" /\ mainPc \in {"closedDone", "printed", "logged"}) =>
        /\ { reportIn[i].IP : i \in 1..Len(reportIn) } = { ips[i] : i \in 1..Len(ips) }
        /\ Len(reportIn) = Len(ips)
        /\ Cardinality(sortSlice(reportIn)) = 1
        /\ mainPc \in {"printed", "logged"} =>
              /\ Len(pingResults) = Len(ips) /\ Len(console) = Len(ips)
              /\ \A i \in 1..Len(ips) :
                    /\ pingResults[i].IP = ips[i]
                    /\ console[i].octet = getLastOctet(ips[i])
        /\ mainPc = "logged" =>
              /\ Len(logRows) = Len(ips)
              /\ \A i \in 1..Len(ips) : logRows[i].ip = ips[i]

\* (supporting) the two addresses of ::ffff:10.0.1.77/126, collected in
\* descending order with 10.0.1.78 alone alive, printed and logged ascending
RunChunkSortUniqueReached ==
    /\ runPc = "scan"
    /\ mainPc = "logged"
    /\ subnets[subIdx].fam = "v4in6"
    /\ reportIn = <<[IP |-> Dotted(10, 0, 1, 78), Alive |-> TRUE],
                    [IP |-> Dotted(10, 0, 1, 77), Alive |-> FALSE]>>
    /\ console[1].octet = <<7, 7>>
    /\ logRows[2].ip = Dotted(10, 0, 1, 78)

---------------------------------------------------------------------------
(* Claims about the Range Expander                                         *)

\* C3: for a valid IPv4 CIDR of prefix length p <= 30, what parseCIDR
\* returns is, without error, the 2^(32-p) - 2 addresses network+1,
\* network+2, ..., broadcast-1 in this order (so every address strictly
\* between network and broadcast once, ascending, and neither of the two).
C3_ExpandExact ==
    (expPc = "parsed" /\ cidrIn.fam = "v4" /\ cidrIn.ones <= 30) =>
        /\ parseOut.err = ErrNil
        /\ Len(parseOut.ips) = Pow2(32 - cidrIn.ones) - 2
        /\ \A k \in 1..Len(parseOut.ips) :
              StringNum(parseOut.ips[k]) = NumAdd(NetworkNum(cidrIn), k)

\* C3 witness: the /24 at the top of the address space, 255.255.255.0/24,
\* expanded to its 254 hosts 255.255.255.1 .. 255.255.255.254
C3_Witness ==
    /\ expPc = "parsed"
    /\ cidrIn = V4(<<255, 255, 255, 0>>, 24)
    /\ Len(parseOut.ips) = 254
    /\ parseOut.ips[1] = <<<<2, 5, 5>>, <<2, 5, 5>>, <<2, 5, 5>>, <<1>>>>
    /\ parseOut.ips[254] = <<<<2, 5, 5>>, <<2, 5, 5>>, <<2, 5, 5>>, <<2, 5, 4>>>>

\* C4: for a valid IPv4 block of prefix length p < 24, what splitIntoSubnets
\* returns is exactly 2^(24-p) chunks, the k-th being the /24 that starts
\* 256*(k-1) addresses after the block's network address: ascending,
\* aligned on 256, disjoint, and together the whole block.
C4_SubdivideExact ==
    (expPc = "split" /\ cidrIn.fam = "v4" /\ cidrIn.ones < 24) =>
        /\ Len(splitOut) = Pow2(24 - cidrIn.ones)
        /\ \A k \in 1..Len(splitOut) :
              /\ splitOut[k].fam = "v4"
              /\ splitOut[k].ones = 24
              /\ splitOut[k].addr[4] = 0
              /\ Num(splitOut[k].addr) = NumAdd(NetworkNum(cidrIn), 256 * (k - 1))

\* C4 witness: 10.0.0.0/23 gives exactly 10.0.0.0/24 and 10.0.1.0/24
C4_Witness ==
    /\ expPc = "split"
    /\ cidrIn = V4(<<10, 0, 0, 0>>, 23)
    /\ splitOut = <<V4(<<10, 0, 0, 0>>, 24), V4(<<10, 0, 1, 0>>, 24)>>

\* C5: splitIntoSubnets terminates for every valid IPv4 block of prefix
\* length < 24, also when adding 256 to the 32-bit chunk start wraps around
\* to 0.  The loop is deterministic and its control state is `current`, so
\* it terminates exactly if it never is back at the head of an iteration
\* with the address it started from: once the addition has wrapped, the
\* loop must not be running at start again.
C5_SplitTerminates ==
    ~(loopPc = "loop" /\ loopWrapped /\ current = loopStart)

\* (supporting) for the blocks other than /0, the loop has returned as soon
\* as the addition has wrapped
SplitWrapLeavesLoop ==
    (loopWrapped /\ loopNet.Mask # <<0, 0, 0, 0>>) => loopPc = "returned"

\* C19: parseCIDR terminates for every valid IPv4 CIDR.  Its loop is
\* deterministic with ip as its only control state, so it terminates exactly
\* if it is never again at the head of an iteration with the address it
\* started from: once inc has wrapped ip around to 0.0.0.0, the loop must
\* not be running at the network address again.
C19_ParseTerminates ==
    ~(loopPc = "parse" /\ loopWrapped /\ current = loopStart)

\* (supporting) for the blocks other than 0.0.0.0/0, the loop has left as
\* soon as inc has wrapped the four low bytes
ParseWrapLeavesLoop ==
    (loopPc = "parse" /\ loopWrapped) => loopNet.Mask = <<0, 0, 0, 0>>

\* (supporting) every iteration appends the string of the address the loop
\* is at, and inc leaves the loop at the next address: the four low bytes of
\* ip are those of the appended address plus one, in 4 and in 16 bytes
ParseAppendsOwnAddress ==
    (loopPc \in {"parse", "parsed"} /\ loopSteps >= 1) =>
        Num(SubSeq(current, Len(current) - 3, Len(current))) = NumAdd(StringNum(lastSubnet), 1)

\* (supporting) the loop over ::ffff:10.0.1.77/126, taken up at 10.0.1.77,
\* has appended 10.0.1.77 and is at 10.0.1.78
MappedHeadAppended ==
    /\ loopPc = "parse"
    /\ loopSteps = 1
    /\ Len(current) = IPv6len
    /\ lastSubnet = Dotted(10, 0, 1, 77)
    /\ To4(current) = <<10, 0, 1, 78>>

\* (supporting) the loop over ::ffff:0.0.0.0/96 has appended 255.255.255.255,
\* inc has carried into the twelve bytes above, giving ::1:0:0:0, no IPv4
\* address, and the loop has left
MappedWrapLeft ==
    /\ loopPc = "parsed"
    /\ Len(loopNet.Mask) = IPv6len /\ LowZero(loopNet.Mask)
    /\ lastSubnet = Dotted(255, 255, 255, 255)
    /\ current = <<0, 0, 0, 0, 0, 0, 0, 0, 0, 1, 0, 0, 0, 0, 0, 0>>
    /\ To4(current) = <<>>

\* C6: parseCIDR fails with the "network too small" error for every block
\* of prefix length 31 or 32, and processCIDR takes its error return.
C6_TooSmallIsError ==
    (expPc = "parsed" /\ cidrIn.fam = "v4" /\ cidrIn.ones >= 31) =>
        /\ parseOut.err = ErrTooSmall
        /\ procOut = "error"

=============================================================================
